---- MODULE Spec2Model ----
(***************************************************************************)
(* Model of MetaplaySDK/Scripts/udp-test-tool.py: the UDP ping/pong probe. *)
(*                                                                         *)
(* Three threads share two locked dicts: writer() (the Sender), reader()   *)
(* (the Receiver) and the main thread running test() (handshake, Analyzer  *)
(* loop, summary).  Time is the monotonic clock perf_counter_ns(), counted *)
(* here in ticks of one second.  Python dicts keep insertion order, so     *)
(* every dict is a sequence of [id, ts] entries with unique ids.           *)
(***************************************************************************)
EXTENDS Integers, Sequences, FiniteSets, TLC

\* ---- bounds of the model ------------------------------------------------
\* seconds the clock runs past T0 (window k is analysed from T0 + k + 3 on)
MaxElapsed == 4
\* packets the writer sends
MaxSent == 2
\* datagrams nobody asked for that reach the socket
MaxStray == 1
\* latency samples in one window
MaxSamples == 3

\* ---- program constants --------------------------------------------------
\* One second of the monotonic clock (1_000_000_000 ns), in ticks.
TicksPerSecond == 1
\* complete_second = current_second - 2
GraceSeconds == 2

VARIABLES
  now,              \* time.perf_counter_ns(), in ticks
  packet_rate,      \* argument of test(): packets per second
  test_limit,       \* argument of test(): <<>> is None, <<n>> is int n
  pc_main,          \* position of the main thread in test()
  exit_code,        \* <<>> while the process lives, <<c>> once it has exited
  start_at,         \* T0
  read_buf,         \* live receive store (ordered dict)
  write_buf,        \* live send store (ordered dict)
  read_buf_lock,    \* "free" or the holder
  write_buf_lock,
  read_buf_copy,    \* Analyzer's cumulative snapshots
  write_buf_copy,
  analyzed_second,
  totals,           \* [sent, lost, reorders]
  result,           \* tuple returned by the last analyze_range
  reports,          \* window report lines printed so far
  summary,          \* summary lines printed so far
  pc_w,             \* writer thread
  num_messages_sent,
  send_time,
  pc_r,             \* reader thread
  reply,
  reply_at,
  net,              \* datagrams queued at the socket for recvfrom
  stray_left,       \* datagrams the environment may still inject
  interrupted,      \* a KeyboardInterrupt has been delivered
  hello,            \* outcome of the handshake's ask_raw
  raised,           \* exception that unwound the main thread, "none" if none
  sent_log,         \* history: id -> send_time of every sendto
  first_recv,       \* history: id -> arrival time of its first valid reply
  invalid_stored,   \* history: the reader has stored an invalid datagram
  seen_log,         \* history: per cycle, the ids stored when it began
  codec,            \* a packet being built and read back (lines 130-133, 115-117)
  stats             \* latency samples and their statistics (lines 54-69)

vars == <<now, packet_rate, test_limit, pc_main, exit_code, start_at,
          read_buf, write_buf, read_buf_lock, write_buf_lock, read_buf_copy,
          write_buf_copy, analyzed_second, totals, result, reports, summary,
          pc_w, num_messages_sent, send_time, pc_r, reply, reply_at, net,
          stray_left, interrupted, hello, raised, sent_log, first_recv,
          invalid_stored, seen_log, codec, stats>>

main_vars == <<pc_main, exit_code, start_at, read_buf_copy, write_buf_copy,
               analyzed_second, totals, result, reports, summary, hello,
               raised, seen_log>>
writer_vars == <<pc_w, num_messages_sent, send_time, sent_log>>
reader_vars == <<pc_r, reply, reply_at, first_recv, invalid_stored>>
input_vars == <<packet_rate, test_limit>>
\* everything but codec and stats
probe_vars == <<now, input_vars, main_vars, read_buf, write_buf, read_buf_lock,
                write_buf_lock, writer_vars, reader_vars, net, stray_left,
                interrupted>>

\* ---- ordered dicts ------------------------------------------------------
Entry(id, ts) == [id |-> id, ts |-> ts]
Keys(d) == {d[i].id : i \in DOMAIN d}
Has(d, id) == id \in Keys(d)
IndexOf(d, id) == CHOOSE i \in DOMAIN d : d[i].id = id
Get(d, id) == d[IndexOf(d, id)].ts

\* d[id] = ts: an existing key keeps its position and takes the new value.
DictSet(d, id, ts) ==
  IF Has(d, id)
  THEN [i \in DOMAIN d |-> IF d[i].id = id THEN Entry(id, ts) ELSE d[i]]
  ELSE Append(d, Entry(id, ts))

\* an update that merges nothing
DictUpdate_MergesNothing(d, e) == d

RECURSIVE DictUpdate(_, _)
\* d.update(e)
DictUpdate(d, e) ==
  IF e = <<>> THEN d
  ELSE DictUpdate(DictSet(d, Head(e).id, Head(e).ts), Tail(e))

SeqSum(s) ==
  LET F[i \in 0..Len(s)] == IF i = 0 THEN 0 ELSE F[i - 1] + s[i]
  IN  F[Len(s)]
\* ---- analyze_range ------------------------------------------------------
\* PingInRange without the upper bound of line 34
PingInRange_NoUpperBound(wb, time_start, time_end) ==
  SelectSeq(wb, LAMBDA e : ~(e.ts < time_start))

\* PingInRange without the lower bound of line 34
PingInRange_NoLowerBound(wb, time_start, time_end) ==
  SelectSeq(wb, LAMBDA e : ~(e.ts >= time_end))

\* lines 32-36: the send entries with time_start <= ts < time_end
PingInRange(wb, time_start, time_end) ==
  SelectSeq(wb, LAMBDA e : ~(e.ts < time_start \/ e.ts >= time_end))

\* lines 38-41: (id, send_ts, recv_ts, duration) of the selected ids in read_buf
PingPongInRange(pir, rb) ==
  LET m == SelectSeq(pir, LAMBDA e : Has(rb, e.id))
  IN  [i \in DOMAIN m |->
         [id |-> m[i].id, send_ts |-> m[i].ts, recv_ts |-> Get(rb, m[i].id),
          duration |-> Get(rb, m[i].id) - m[i].ts]]

\* lines 46-52: adjacent matched pairs whose arrival positions are inverted
NumReorders(pp, rb) ==
  Cardinality({ndx \in 2..Len(pp) :
                 IndexOf(rb, pp[ndx - 1].id) > IndexOf(rb, pp[ndx].id)})

\* a cleanup that empties the snapshot
CleanBuf_DropsAll(buf, time_end) == <<>>
\* a cleanup that deletes nothing
CleanBuf_KeepsAll(buf, time_end) == buf
\* lines 71-84: delete every entry with ts < time_end
CleanBuf(buf, time_end) == SelectSeq(buf, LAMBDA e : ~(e.ts < time_end))

\* analyze_range with the matched ids counted as the lost ones
analyze_range_LostCountsMatched(wb, rb, time_start, time_end) ==
  LET pir == PingInRange(wb, time_start, time_end)
      pp  == PingPongInRange(pir, rb)
  IN  [num_sent     |-> Len(pir),
       num_lost     |-> Len(pp),
       num_reorders |-> NumReorders(pp, rb),
       ids          |-> Keys(pir),
       matched      |-> {pp[i].id : i \in DOMAIN pp},
       durations    |-> [i \in DOMAIN pp |-> pp[i].duration],
       write_buf    |-> CleanBuf(wb, time_end),
       read_buf     |-> CleanBuf(rb, time_end)]

analyze_range(wb, rb, time_start, time_end) ==
  LET pir == PingInRange(wb, time_start, time_end)
      pp  == PingPongInRange(pir, rb)
  IN  [num_sent     |-> Len(pir),
       num_lost     |-> Len(pir) - Len(pp),
       num_reorders |-> NumReorders(pp, rb),
       ids          |-> Keys(pir),
       matched      |-> {pp[i].id : i \in DOMAIN pp},
       durations    |-> [i \in DOMAIN pp |-> pp[i].duration],
       write_buf    |-> CleanBuf(wb, time_end),
       read_buf     |-> CleanBuf(rb, time_end)]

NoResult == [num_sent |-> 0, num_lost |-> 0, num_reorders |-> 0, ids |-> {},
             matched |-> {}, durations |-> <<>>]

\* ---- handshake ----------------------------------------------------------
Ponghelo == <<112, 111, 110, 103, 104, 101, 108, 111>>
\* Replies the server may give to "pinghelo": the right one, a wrong text,
\* and bytes that are not UTF-8 (0xFF occurs in no UTF-8 encoding).
HelloReplies == {Ponghelo, <<112, 111, 110, 103>>, <<255>>}
\* reply.decode("utf-8") succeeds; the replies above hold ASCII or 0xFF only
Utf8Decodable(bytes) == \A i \in DOMAIN bytes : bytes[i] < 128

\* ---- datagrams ----------------------------------------------------------
\* tag: bytes[0:4]; size: "exact" is packet_len, "other" another length >= 8,
\* "short" fewer than 8 bytes; id: the int at bytes[4:8]; n tells copies apart.
Datagram(tag, size, id, n) == [tag |-> tag, size |-> size, id |-> id, n |-> n]
Ids == 0..(MaxSent - 1)
EchoOf(id) == Datagram("pong", "exact", id, 0)
\* Datagrams nobody asked for, all carrying the first packet's id.
StrayDatagrams ==
  {Datagram("pong", "exact", 0, 1), Datagram("ping", "exact", 0, 1),
   Datagram("pong", "other", 0, 1), Datagram("pong", "short", 0, 1)}
NoReply == Datagram("none", "none", 0, 0)
\* line 115, negated
ValidPong(d) == ~(d.size /= "exact" \/ d.tag /= "pong")

\* ---- inputs -------------------------------------------------------------
\* -rate: on a clock of whole seconds packet n is due at second ceil(n / rate),
\* and a late writer sends later still, so rate 2 covers the runs of rate 1.
Rates == {2}
\* -count: <<>> is None (run until interrupted), <<n>> is int n
Limits == {<<>>, <<0>>, <<1>>}
\* what perf_counter_ns() reads when the run starts
StartTimes == {1}

\* ---- time ---------------------------------------------------------------
Alive == exit_code = <<>>
\* k of the window [T0 + k s, T0 + (k+1) s) holding ts (ts >= T0)
WindowOf(ts) == (ts - start_at) \div TicksPerSecond
\* line 134-136: send_time >= start_at + n * (1e9 / packet_rate)
\* line 136 with a test that always passes
DueToSend_NoPacing(t, n) == t >= start_at
DueToSend(t, n) == t * packet_rate >= start_at * packet_rate + n * TicksPerSecond

InitProbe ==
  /\ now \in StartTimes
  /\ packet_rate \in Rates
  /\ test_limit \in Limits
  /\ pc_main = "handshake"
  /\ exit_code = <<>>
  /\ start_at = 0
  /\ read_buf = <<>> /\ write_buf = <<>>
  /\ read_buf_lock = "free" /\ write_buf_lock = "free"
  /\ read_buf_copy = <<>> /\ write_buf_copy = <<>>
  /\ analyzed_second = 0
  /\ totals = [sent |-> 0, lost |-> 0, reorders |-> 0]
  /\ result = NoResult
  /\ reports = <<>> /\ summary = <<>>
  /\ pc_w = "unstarted" /\ num_messages_sent = 0 /\ send_time = 0
  /\ pc_r = "unstarted" /\ reply = NoReply /\ reply_at = 0
  /\ net = {}
  /\ stray_left = MaxStray
  /\ interrupted = FALSE
  /\ hello = [status |-> "none", bytes |-> <<>>]
  /\ raised = "none"
  /\ sent_log = <<>> /\ first_recv = <<>> /\ invalid_stored = FALSE
  /\ seen_log = <<>>

\* no samples, nothing computed: "n/a" is the empty sequence
NoStats == [phase |-> "none", samples |-> <<>>, mean |-> <<>>, min |-> <<>>,
            max |-> <<>>, stddev |-> <<>>]

\* ---- the packet codec ---------------------------------------------------
\* b"ping" and the bytes of an all-zero bytearray (lines 130-131)
Ping == <<112, 105, 110, 103>>
ZeroBytes(n) == [i \in 1..n |-> 0]
\* buffer[a:b] of a Python bytes object (0-based, b exclusive)
Slice(bytes, a, b) == SubSeq(bytes, a + 1, IF b < Len(bytes) THEN b ELSE Len(bytes))
\* struct's "=l": 4 bytes, two's complement, in the byte order of the machine
ByteOrders == {"little", "big"}
LittleEndian(n) ==
  <<n % 256, (n \div 256) % 256, (n \div 65536) % 256, (n \div 16777216) % 256>>
Reversed(b) == [i \in 1..Len(b) |-> b[Len(b) + 1 - i]]
pack_l(n, order) == IF order = "little" THEN LittleEndian(n) ELSE Reversed(LittleEndian(n))
unpack_l_SwappedOrder(b, order) ==
  LET le == IF order = "little" THEN Reversed(b) ELSE b
  IN  le[1] + 256 * le[2] + 65536 * le[3]
      + 16777216 * (IF le[4] < 128 THEN le[4] ELSE le[4] - 256)
unpack_l(b, order) ==
  LET le == IF order = "little" THEN b ELSE Reversed(b)
  IN  le[1] + 256 * le[2] + 65536 * le[3]
      + 16777216 * (IF le[4] < 128 THEN le[4] ELSE le[4] - 256)
\* struct.pack_into("=l", buffer, offset, n): overwrites 4 bytes in place
pack_into(buffer, offset, n, order) ==
  [i \in 1..Len(buffer) |->
     IF i > offset /\ i <= offset + 4 THEN pack_l(n, order)[i - offset] ELSE buffer[i]]
\* the ids and packet sizes tried: byte boundaries and the largest id; a
\* size below 8 leaves no room for the id
SeqIds == {0, 1, 255, 256, 65535, 65536, 16777215, 16777216, 2147483647}
PacketSizes == {7, 8, 9, 12}
NoPacket == [phase |-> "none", order |-> "little", size |-> 0, seq |-> 0,
             buffer |-> <<>>, tag |-> <<>>, id |-> 0]
InitCodec ==
  /\ InitProbe
  /\ stats = NoStats
  /\ codec \in {[phase |-> "new", order |-> o, size |-> sz, seq |-> n,
              buffer |-> <<>>, tag |-> <<>>, id |-> 0] :
               o \in ByteOrders, sz \in PacketSizes, n \in SeqIds}
\* lines 130-133: the writer builds the packet for id codec.seq
BuildPacket ==
  /\ codec.phase = "new"
  /\ LET buffer == [i \in 1..codec.size |->
                      IF i <= 4 THEN Ping[i] ELSE ZeroBytes(codec.size)[i]]
     IN  IF codec.size < 8
         THEN codec' = [codec EXCEPT !.phase = "struct.error", !.buffer = buffer]
         ELSE codec' = [codec EXCEPT !.phase = "built",
                          !.buffer = pack_into(buffer, 4, codec.seq, codec.order)]
  /\ UNCHANGED <<probe_vars, stats>>
\* lines 115-117 applied to that packet: the tag and the id read back
ReadPacket ==
  /\ codec.phase = "built"
  /\ codec' = [codec EXCEPT !.phase = "read",
                 !.tag = Slice(codec.buffer, 0, 4),
                 !.id = unpack_l(Slice(codec.buffer, 4, 8), codec.order)]
  /\ UNCHANGED <<probe_vars, stats>>
NextCodec == BuildPacket \/ ReadPacket
SpecCodec == InitCodec /\ [][NextCodec]_vars

\* ---- latency statistics (lines 54-69) -----------------------------------
\* The samples are whole microseconds.  A printed value is the number after
\* the formatting: hundredths of a millisecond for mean, min and max
\* (":.2f"), tenths for stddev (":.1f"); "n/a" is the empty sequence.
UsPerHundredth == 10
UsPerTenth == 100
SeqMax(d) == CHOOSE x \in {d[i] : i \in DOMAIN d} : \A i \in DOMAIN d : d[i] <= x
SeqMin(d) == CHOOSE x \in {d[i] : i \in DOMAIN d} : \A i \in DOMAIN d : x <= d[i]
\* num / den rounded to an integer; at a tie the float at hand decides, so
\* both neighbours are possible
Rounded(num, den) ==
  {v \in {num \div den, num \div den + 1} :
     IF v * den >= num THEN 2 * (v * den - num) <= den
                       ELSE 2 * (num - v * den) <= den}
\* lines 57-63: the values printed for one or more samples
mean_ping(d) ==
  IF Len(d) > 0 THEN {<<v>> : v \in Rounded(SeqSum(d), Len(d) * UsPerHundredth)}
  ELSE {<<>>}
max_ping(d) ==
  IF Len(d) > 0 THEN {<<v>> : v \in Rounded(SeqMax(d), UsPerHundredth)} ELSE {<<>>}
min_ping_OfFirstSample(d) ==
  IF Len(d) > 0 THEN {<<v>> : v \in Rounded(d[1], UsPerHundredth)} ELSE {<<>>}
min_ping(d) ==
  IF Len(d) > 0 THEN {<<v>> : v \in Rounded(SeqMin(d), UsPerHundredth)} ELSE {<<>>}
\* lines 66-69: sqrt(sum((d - mean)^2) / n), for two or more samples.  With
\* dev[i] = n * d[i] - sum, the value s in tenths of a millisecond is a
\* rounding of sqrt(sum(dev^2) / n^3) / UsPerTenth.
SumSquaredDev(d) ==
  SeqSum([i \in DOMAIN d |->
            (Len(d) * d[i] - SeqSum(d)) * (Len(d) * d[i] - SeqSum(d))])
stddev_ping(d) ==
  IF Len(d) > 1
  THEN LET n3 == Len(d) * Len(d) * Len(d)
           q  == (UsPerTenth * UsPerTenth) \div 4
       IN  {<<s>> : s \in {t \in 0..((SeqMax(d) - SeqMin(d)) \div (2 * UsPerTenth) + 1) :
                            /\ (t = 0 \/ (2 * t - 1) * (2 * t - 1) * q * n3 <= SumSquaredDev(d))
                            /\ SumSquaredDev(d) <= (2 * t + 1) * (2 * t + 1) * q * n3}}
  ELSE {<<>>}
\* the latencies tried, in microseconds, and the sample lists made of them
DurationsUs == {5000, 5004, 10000, 15000, 15007}
SampleLists == UNION {[1..n -> DurationsUs] : n \in 0..MaxSamples}
InitStats ==
  /\ InitProbe
  /\ codec = NoPacket
  /\ stats \in {[NoStats EXCEPT !.phase = "new", !.samples = d] : d \in SampleLists}
\* lines 54-63
MeanMinMax ==
  /\ stats.phase = "new"
  /\ \E mean \in mean_ping(stats.samples), mx \in max_ping(stats.samples),
        mn \in min_ping(stats.samples) :
       stats' = [stats EXCEPT !.phase = "mean", !.mean = mean, !.max = mx, !.min = mn]
  /\ UNCHANGED <<probe_vars, codec>>
\* lines 65-69
Stddev ==
  /\ stats.phase = "mean"
  /\ \E sd \in stddev_ping(stats.samples) :
       stats' = [stats EXCEPT !.phase = "done", !.stddev = sd]
  /\ UNCHANGED <<probe_vars, codec>>
NextStats == MeanMinMax \/ Stddev
SpecStats == InitStats /\ [][NextStats]_vars

\* the probe itself builds no packet in codec and no statistics in stats
Init == InitProbe /\ codec = NoPacket /\ stats = NoStats

\* ---- main thread: test() ------------------------------------------------
\* lines 92, 96-98: recvfrom times out after 5 s
HandshakeTimeout ==
  /\ pc_main = "handshake"
  /\ hello' = [status |-> "timeout", bytes |-> <<>>]
  /\ pc_main' = "exited"
  /\ exit_code' = <<2>>
  /\ UNCHANGED <<codec, stats, now, input_vars, start_at, read_buf, write_buf, read_buf_lock,
                 write_buf_lock, read_buf_copy, write_buf_copy, analyzed_second,
                 totals, result, reports, summary, writer_vars, reader_vars,
                 net, stray_left, interrupted, raised, seen_log>>

\* lines 92-95: a reply arrives; decode, compare; lines 99-151 on success
HandshakeReply ==
  /\ pc_main = "handshake"
  /\ \E bytes \in HelloReplies :
       /\ hello' = [status |-> "reply", bytes |-> bytes]
       /\ IF ~Utf8Decodable(bytes)
          THEN \* UnicodeDecodeError passes `except socket.timeout`: traceback,
               \* and with no thread started the interpreter exits with 1
               /\ raised' = "UnicodeDecodeError"
               /\ pc_main' = "exited"
               /\ exit_code' = <<1>>
               /\ UNCHANGED <<start_at, pc_w, pc_r>>
          ELSE IF bytes /= Ponghelo
          THEN /\ pc_main' = "exited"
               /\ exit_code' = <<3>>
               /\ UNCHANGED <<raised, start_at, pc_w, pc_r>>
          ELSE /\ start_at' = now
               /\ pc_r' = "recv"
               /\ pc_w' = "pace"
               /\ pc_main' = "init"
               /\ UNCHANGED <<raised, exit_code>>
  /\ UNCHANGED <<codec, stats, now, input_vars, read_buf, write_buf, read_buf_lock,
                 write_buf_lock, read_buf_copy, write_buf_copy, analyzed_second,
                 totals, result, reports, summary, num_messages_sent, send_time,
                 sent_log, reply, reply_at, first_recv, invalid_stored, net,
                 stray_left,
                 interrupted, seen_log>>

\* lines 153-158; entering the try of line 160
InitAnalyzer ==
  /\ pc_main = "init"
  /\ analyzed_second' = 0
  /\ write_buf_copy' = <<>> /\ read_buf_copy' = <<>>
  /\ totals' = [sent |-> 0, lost |-> 0, reorders |-> 0]
  /\ pc_main' = "loop"
  /\ UNCHANGED <<codec, stats, now, input_vars, exit_code, start_at, read_buf, write_buf,
                 read_buf_lock, write_buf_lock, result, reports, summary,
                 writer_vars, reader_vars, net, stray_left, interrupted, hello,
                 raised, seen_log>>

current_second == (now - start_at) \div TicksPerSecond
\* line 164 without the grace period
complete_second_NoGrace == current_second
complete_second == current_second - GraceSeconds

\* lines 162-168, when the test of line 165 lets the cycle go on.  The
\* reader holds read_buf_lock only within its one store step, so acquire()
\* finds it free.
BeginCycle ==
  /\ pc_main = "loop"
  /\ ~(complete_second <= analyzed_second)
  /\ read_buf_lock = "free"
  /\ read_buf_lock' = "main"
  /\ pc_main' = "read_locked"
  /\ seen_log' = Append(seen_log, Keys(first_recv))
  /\ UNCHANGED <<codec, stats, now, input_vars, exit_code, start_at, read_buf, write_buf,
                 write_buf_lock, read_buf_copy, write_buf_copy, analyzed_second,
                 totals, result, reports, summary, writer_vars, reader_vars,
                 net, stray_left, interrupted, hello, raised>>

\* lines 169-173: merge, replace the live store, release; take write_buf_lock
DrainRead ==
  /\ pc_main = "read_locked"
  /\ write_buf_lock = "free"
  /\ read_buf_copy' = DictUpdate(read_buf_copy, read_buf)
  /\ read_buf' = <<>>
  /\ read_buf_lock' = "free"
  /\ write_buf_lock' = "main"
  /\ pc_main' = "write_locked"
  /\ UNCHANGED <<codec, stats, now, input_vars, exit_code, start_at, write_buf,
                 write_buf_copy, analyzed_second, totals, result, reports,
                 summary, writer_vars, reader_vars, net, stray_left,
                 interrupted, hello, raised, seen_log>>

analyze_start == start_at + analyzed_second * TicksPerSecond
analyze_end == start_at + (analyzed_second + 1) * TicksPerSecond

\* The window report line 184 prints, with the ids behind its counts.
ReportOf(r) ==
  [second |-> analyzed_second, num_sent |-> r.num_sent, num_lost |-> r.num_lost,
   num_reorders |-> r.num_reorders, ids |-> r.ids, matched |-> r.matched,
   durations |-> r.durations]

\* lines 174-184: merge, replace the live store, release; analyze_range;
\* print.  print raises OSError when stdout is gone (printed = FALSE), which
\* `except KeyboardInterrupt` does not catch: test() unwinds.
DrainWriteAnalyze ==
  /\ pc_main = "write_locked"
  /\ write_buf' = <<>>
  /\ write_buf_lock' = "free"
  /\ LET r == analyze_range(DictUpdate(write_buf_copy, write_buf),
                            read_buf_copy, analyze_start, analyze_end)
     IN  /\ write_buf_copy' = r.write_buf
         /\ read_buf_copy' = r.read_buf
         /\ result' = ReportOf(r)
         /\ \E printed \in BOOLEAN :
              IF printed
              THEN /\ reports' = Append(reports, ReportOf(r))
                   /\ pc_main' = "accumulate"
                   /\ UNCHANGED raised
              ELSE /\ raised' = "OSError"
                   /\ pc_main' = "uncaught"
                   /\ UNCHANGED reports
  /\ UNCHANGED <<codec, stats, now, input_vars, exit_code, start_at, read_buf,
                 read_buf_lock, analyzed_second, totals, summary, writer_vars,
                 reader_vars, net, stray_left, interrupted, hello, seen_log>>

\* line 191
LimitReached(second) == test_limit /= <<>> /\ second >= test_limit[1]

\* lines 186-192
Accumulate ==
  /\ pc_main = "accumulate"
  /\ totals' = [sent     |-> totals.sent + result.num_sent,
                lost     |-> totals.lost + result.num_lost,
                reorders |-> totals.reorders + result.num_reorders]
  /\ analyzed_second' = analyzed_second + 1
  /\ pc_main' = IF LimitReached(analyzed_second + 1) THEN "summary" ELSE "loop"
  /\ UNCHANGED <<codec, stats, now, input_vars, exit_code, start_at, read_buf, write_buf,
                 read_buf_lock, write_buf_lock, read_buf_copy, write_buf_copy,
                 result, reports, summary, writer_vars, reader_vars, net,
                 stray_left, interrupted, hello, raised, seen_log>>

\* lines 197-198: the summary, then os._exit(0); the process is gone, its
\* threads, its stores and its socket with it
SummaryAndExit_ExitBeforePrint ==
  /\ summary' = summary
  /\ exit_code' = <<0>>
  /\ pc_main' = "exited"
  /\ pc_w' = "killed" /\ pc_r' = "killed"
  /\ num_messages_sent' = 0 /\ send_time' = 0
  /\ reply' = NoReply /\ reply_at' = 0
  /\ read_buf' = <<>> /\ write_buf' = <<>>
  /\ read_buf_copy' = <<>> /\ write_buf_copy' = <<>>
  /\ net' = {}
  /\ result' = NoResult
  /\ UNCHANGED <<codec, stats, now, input_vars, start_at, read_buf_lock, write_buf_lock,
                 analyzed_second, totals, reports, stray_left, hello, raised,
                 sent_log, first_recv, invalid_stored, seen_log>>
SummaryAndExit ==
  /\ summary' = Append(summary, totals)
  /\ exit_code' = <<0>>
  /\ pc_main' = "exited"
  /\ pc_w' = "killed" /\ pc_r' = "killed"
  /\ num_messages_sent' = 0 /\ send_time' = 0
  /\ reply' = NoReply /\ reply_at' = 0
  /\ read_buf' = <<>> /\ write_buf' = <<>>
  /\ read_buf_copy' = <<>> /\ write_buf_copy' = <<>>
  /\ net' = {}
  /\ result' = NoResult
  /\ UNCHANGED <<codec, stats, now, input_vars, start_at, read_buf_lock, write_buf_lock,
                 analyzed_second, totals, reports, stray_left, hello, raised,
                 sent_log, first_recv, invalid_stored, seen_log>>

\* the loop ended at line 192
Finish ==
  /\ pc_main = "summary"
  /\ SummaryAndExit
  /\ UNCHANGED interrupted

\* Positions inside `try:` (lines 160-192) and those after the threads have
\* started but outside it (lines 153-158, 197).
InTry == {"loop", "read_locked", "write_locked", "accumulate"}
OutsideTry == {"init", "summary"}

\* The operator's Ctrl-C: KeyboardInterrupt is raised in the main thread at
\* its current position.  Inside the try, `except KeyboardInterrupt: pass`
\* leads to lines 197-198 (a lock the main thread holds stays held).
\* Outside it the exception unwinds test(); reader and writer are not daemon
\* threads (lines 146, 150 set `deamon`), so the interpreter then waits for
\* them and the process stays.
Interrupt ==
  /\ ~interrupted
  /\ pc_main \in InTry \cup OutsideTry
  /\ interrupted' = TRUE
  /\ IF pc_main \in InTry
     THEN SummaryAndExit
     ELSE /\ pc_main' = "uncaught"
          /\ raised' = "KeyboardInterrupt"
          /\ UNCHANGED <<codec, stats, now, input_vars, exit_code, start_at, read_buf,
                         write_buf, read_buf_lock, write_buf_lock,
                         read_buf_copy, write_buf_copy, analyzed_second,
                         totals, result, reports, summary, writer_vars,
                         reader_vars, net, stray_left, hello, seen_log>>

\* ---- writer thread ------------------------------------------------------
\* lines 133-137, when the test of line 136 passes: the packet goes out; the
\* echo server answers it or the packet (or its answer) is lost
WriterSend ==
  /\ Alive /\ pc_w = "pace"
  /\ num_messages_sent < MaxSent
  /\ DueToSend(now, num_messages_sent)
  /\ send_time' = now
  /\ sent_log' = Append(sent_log, Entry(num_messages_sent, now))
  /\ \E echoed \in BOOLEAN :
       net' = IF echoed THEN net \cup {EchoOf(num_messages_sent)} ELSE net
  /\ pc_w' = "acquire"
  /\ UNCHANGED <<codec, stats, now, input_vars, main_vars, read_buf, write_buf,
                 read_buf_lock, write_buf_lock, num_messages_sent, reader_vars,
                 stray_left, interrupted>>

\* lines 138-141: the store, under write_buf_lock (send_time is dead until
\* line 135 sets it again)
WriterStore ==
  /\ Alive /\ pc_w = "acquire"
  /\ write_buf_lock = "free"
  /\ write_buf' = DictSet(write_buf, num_messages_sent, send_time)
  /\ write_buf_lock' = "free"
  /\ num_messages_sent' = num_messages_sent + 1
  /\ send_time' = 0
  /\ pc_w' = "pace"
  /\ UNCHANGED <<codec, stats, now, input_vars, main_vars, read_buf, read_buf_lock,
                 sent_log, reader_vars, net, stray_left, interrupted>>

\* ---- reader thread ------------------------------------------------------
\* lines 113-117: recvfrom returns a queued reply, or a datagram nobody asked
\* for (a duplicated reply, a malformed one).  An invalid datagram is
\* reported, and then unpacked like any other; unpack_from raises
\* struct.error on fewer than 8 bytes, which ends the thread.
ReaderRecv ==
  /\ Alive /\ pc_r = "recv"
  /\ \E d \in net \cup (IF stray_left > 0 THEN StrayDatagrams ELSE {}) :
       /\ net' = net \ {d}
       /\ stray_left' = IF d \in net THEN stray_left ELSE stray_left - 1
       /\ reply' = d
       /\ reply_at' = now
       /\ pc_r' = IF d.size = "short" THEN "dead" ELSE "acquire"
  /\ UNCHANGED <<codec, stats, now, input_vars, main_vars, read_buf, write_buf,
                 read_buf_lock, write_buf_lock, writer_vars, first_recv,
                 invalid_stored, interrupted>>

\* lines 118-120: the store, under read_buf_lock (reply and reply_at are dead
\* until lines 113-114 set them again)
ReaderStore ==
  /\ Alive /\ pc_r = "acquire"
  /\ read_buf_lock = "free"
  /\ read_buf' = DictSet(read_buf, reply.id, reply_at)
  /\ read_buf_lock' = "free"
  /\ first_recv' = IF ValidPong(reply) /\ ~Has(first_recv, reply.id)
                   THEN Append(first_recv, Entry(reply.id, reply_at))
                   ELSE first_recv
  /\ invalid_stored' = (invalid_stored \/ ~ValidPong(reply))
  /\ reply' = NoReply
  /\ reply_at' = 0
  /\ pc_r' = "recv"
  /\ UNCHANGED <<codec, stats, now, input_vars, main_vars, write_buf, write_buf_lock,
                 writer_vars, net, stray_left, interrupted>>

\* ---- environment --------------------------------------------------------
\* The monotonic clock advances.
Tick ==
  /\ Alive /\ pc_main /= "handshake"
  /\ now - start_at < MaxElapsed
  /\ now' = now + 1
  /\ UNCHANGED <<codec, stats, input_vars, main_vars, read_buf, write_buf, read_buf_lock,
                 write_buf_lock, writer_vars, reader_vars, net, stray_left,
                 interrupted>>

Next ==
  \/ HandshakeTimeout \/ HandshakeReply \/ InitAnalyzer \/ BeginCycle
  \/ DrainRead \/ DrainWriteAnalyze \/ Accumulate \/ Finish \/ Interrupt
  \/ WriterSend \/ WriterStore
  \/ ReaderRecv \/ ReaderStore
  \/ Tick

Spec == Init /\ [][Next]_vars
\* ---- claims -------------------------------------------------------------
\* ids whose send record the writer has stored (line 139)
Recorded == {sent_log[i].id : i \in DOMAIN sent_log} \cap 0..(num_messages_sent - 1)
\* window k has been finalized: its report is out
Finalized(k) == k < Len(reports)
\* the windows that counted id as sent, and as lost
SentWindows(id) == {reports[j].second : j \in {n \in DOMAIN reports : id \in reports[n].ids}}
LostWindows(id) ==
  {reports[j].second :
     j \in {n \in DOMAIN reports : id \in reports[n].ids \ reports[n].matched}}
NoStray == stray_left = MaxStray

\* C1: every id the Sender has recorded with a send timestamp in window k is,
\* once window k is finalized, among the ids counted in window k's num_sent.
C1_RecordedIdCounted ==
  \A i \in DOMAIN sent_log :
    (sent_log[i].id \in Recorded /\ Finalized(WindowOf(sent_log[i].ts)))
      => WindowOf(sent_log[i].ts) \in SentWindows(sent_log[i].id)

\* C2: the sets of ids selected for two different finalized windows are
\* disjoint: no id is counted in num_sent of more than one window.
C2_WindowsDisjoint ==
  \A i, j \in DOMAIN reports :
    i /= j => reports[i].ids \cap reports[j].ids = {}

\* C2 witness: two finalized windows, each with a counted id.
C2_Witness ==
  /\ Len(reports) >= 2
  /\ reports[1].ids /= {}
  /\ reports[2].ids /= {}

\* C3: a sent packet whose reply has not arrived is, once the window holding
\* its send timestamp is finalized, counted lost in that window and in no
\* other.
C3_LostOnceInOwnWindow ==
  \A i \in DOMAIN sent_log :
    (/\ NoStray
     /\ Finalized(WindowOf(sent_log[i].ts))
     /\ ~Has(first_recv, sent_log[i].id))
      => LostWindows(sent_log[i].id) = {WindowOf(sent_log[i].ts)}

\* C4: with zero loss (no stray datagram, and the reply of every packet sent in
\* a finalized window stored before that window's cycle began) the num_sent
\* of the finalized windows add up to the number of packets sent in them, and
\* their num_lost to 0.
C4_ZeroLossTotals ==
  LET sent_in == {i \in DOMAIN sent_log : Finalized(WindowOf(sent_log[i].ts))}
  IN  (/\ NoStray
       /\ \A i \in sent_in :
            sent_log[i].id \in seen_log[WindowOf(sent_log[i].ts) + 1])
        => /\ SeqSum([j \in DOMAIN reports |-> reports[j].num_sent])
                = Cardinality(sent_in)
           /\ SeqSum([j \in DOMAIN reports |-> reports[j].num_lost]) = 0

\* C5: a datagram of the wrong length or tag is discarded: the reader stores
\* nothing for it, and goes on receiving.
C5_InvalidDatagramDiscarded == ~invalid_stored /\ pc_r /= "dead"

\* C6: the receive record of an id keeps the arrival time of the first valid
\* reply, in the live store and in the Analyzer's snapshot, whatever valid
\* replies with that id arrive later.
C6_FirstReplyKept ==
  ~invalid_stored =>
    \A i \in DOMAIN first_recv :
      /\ Has(read_buf, first_recv[i].id)
           => Get(read_buf, first_recv[i].id) = first_recv[i].ts
      /\ Has(read_buf_copy, first_recv[i].id)
           => Get(read_buf_copy, first_recv[i].id) = first_recv[i].ts

NeverStartedNoOutput ==
  /\ pc_w = "unstarted" /\ pc_r = "unstarted"
  /\ reports = <<>> /\ summary = <<>>

\* C7: a handshake without reply ends the process with code 2, a reply other
\* than "ponghelo" with code 3; either way no thread was started and nothing
\* was reported.
C7_HandshakeFailureExitCodes ==
  /\ hello.status = "timeout" => (exit_code = <<2>> /\ NeverStartedNoOutput)
  /\ (hello.status = "reply" /\ hello.bytes /= Ponghelo)
       => (exit_code = <<3>> /\ NeverStartedNoOutput)

\* C8: after an interrupt delivered once Sender and Receiver run, the summary
\* has been printed once and the process has exited with code 0.
C8_InterruptPrintsSummaryAndExits ==
  interrupted => (pc_main = "exited" /\ exit_code = <<0>> /\ Len(summary) = 1)

\* C9: a run with limit N that was not interrupted ends, with code 0, having
\* printed the reports of windows 0..N-1 in order and one summary.
C9_LimitGivesNReports ==
  (pc_main = "exited" /\ exit_code = <<0>> /\ ~interrupted /\ test_limit /= <<>>)
    => /\ Len(reports) = test_limit[1]
       /\ \A j \in DOMAIN reports : reports[j].second = j - 1
       /\ Len(summary) = 1

\* C10: an error raised inside an analysis cycle does not end the Analyzer:
\* the main thread is still in its loop, or past it on the way to the summary.
C10_CycleErrorDoesNotStopTool ==
  raised = "OSError" => pc_main \in InTry \cup {"summary", "exited"}

\* the ranks of the session phases: handshake, running, report, terminated;
\* a main thread that died of an exception stays where it died
PhaseRank(pc) ==
  CASE pc = "handshake" -> 1
    [] pc \in {"init"} \cup InTry -> 2
    [] pc = "summary" -> 3
    [] pc = "uncaught" -> 4
    [] pc = "exited" -> 5
ReachedRunning == hello.status = "reply" /\ hello.bytes = Ponghelo
\* C11: the session only moves forward through handshake, running, report,
\* terminated: the sender and the receiver start only after a successful
\* handshake, no window report is printed after the summary, and a run that
\* reached running terminates only after the summary was printed.
C11_LifecycleForward ==
  /\ [](/\ (pc_w /= "unstarted" \/ pc_r /= "unstarted") => ReachedRunning
        /\ (ReachedRunning /\ ~Alive) => Len(summary) = 1
        /\ (~ReachedRunning) => (reports = <<>> /\ summary = <<>>))
  /\ [][/\ PhaseRank(pc_main') >= PhaseRank(pc_main)
        /\ (summary /= <<>>) => (reports' = reports /\ summary' = summary)
        /\ (pc_main = "handshake" /\ pc_w' /= "unstarted") => ReachedRunning']_vars
C11_Witness ==
  /\ ~Alive /\ ReachedRunning /\ Len(reports) >= 1 /\ Len(summary) = 1
  /\ sent_log /= <<>>

\* C12: the totals of the final summary are the sums of num_sent, num_lost and
\* num_reorders over all window reports printed during the run.
C12_SummaryTotalsAreSums ==
  \A n \in DOMAIN summary :
    /\ summary[n].sent = SeqSum([j \in DOMAIN reports |-> reports[j].num_sent])
    /\ summary[n].lost = SeqSum([j \in DOMAIN reports |-> reports[j].num_lost])
    /\ summary[n].reorders
         = SeqSum([j \in DOMAIN reports |-> reports[j].num_reorders])

\* the pairs of ids of M that are adjacent in send order and whose earlier
\* sent id has its reply arrive after the reply of the later sent id
SentBefore(a, b) == IndexOf(sent_log, a) < IndexOf(sent_log, b)
AdjacentInSendOrder(M) ==
  {p \in M \X M : /\ SentBefore(p[1], p[2])
                  /\ ~\E c \in M : SentBefore(p[1], c) /\ SentBefore(c, p[2])}
ArrivedAfter(a, b) ==
  /\ Has(first_recv, a) /\ Has(first_recv, b)
  /\ IndexOf(first_recv, a) > IndexOf(first_recv, b)
SwappedPairs(M) == {p \in AdjacentInSendOrder(M) : ArrivedAfter(p[1], p[2])}
\* no valid reply was stored with a timestamp before its packet was sent
RepliesFollowSends ==
  \A i \in DOMAIN first_recv :
    Has(sent_log, first_recv[i].id) =>
      first_recv[i].ts >= Get(sent_log, first_recv[i].id)
\* C13: the num_reorders of a window report is the number of pairs of matched
\* ids adjacent in send order whose earlier sent id arrived later: 0 when all
\* matched ids arrived in send order, 1 when one adjacent pair is swapped.
C13_ReordersAreSwappedAdjacentPairs ==
  RepliesFollowSends =>
    \A j \in DOMAIN reports :
      reports[j].num_reorders = Cardinality(SwappedPairs(reports[j].matched))
\* the same, for runs in which no invalid datagram was stored
C13_WithoutInvalidDatagrams ==
  ~invalid_stored => C13_ReordersAreSwappedAdjacentPairs
\* a swap of two valid replies is counted
C13_SwapCounted ==
  \E j \in DOMAIN reports :
    /\ ~invalid_stored /\ RepliesFollowSends
    /\ reports[j].num_reorders = 1 /\ reports[j].matched = {0, 1}

\* C14: for every id in 0..2^31-1 and every size of at least 8, the tag and the
\* id read back from bytes 0..3 and 4..7 of the packet the sender builds are
\* the tag and the id written, and the packet has the configured size.
C14_CodecRoundTrip ==
  (codec.seq \in 0..2147483647 /\ codec.size >= 8) =>
     /\ codec.phase /= "struct.error"
     /\ codec.phase \in {"built", "read"} => Len(codec.buffer) = codec.size
     /\ codec.phase = "read" =>
          /\ codec.tag = Ping
          /\ codec.id = codec.seq
C14_Witness ==
  /\ codec.phase = "read" /\ codec.seq = 2147483647 /\ codec.size = 12
  /\ codec.order = "big" /\ codec.id = codec.seq


\* C15: window k is finalized only when floor((now - T0) / 1 s) - 2 > k, and
\* the windows are finalized one per analysis cycle, in strictly increasing
\* order of their index starting at 0, each at most once.
C15_GraceAndWindowOrder ==
  /\ \A j \in DOMAIN reports :
       /\ reports[j].second = j - 1
       /\ (now - start_at) \div TicksPerSecond - 2 > reports[j].second
  /\ Len(reports) <= Len(seen_log) /\ Len(seen_log) <= Len(reports) + 1
C15_Witness ==
  /\ Len(reports) = 2 /\ Len(seen_log) = 2
  /\ (now - start_at) \div TicksPerSecond = 4


\* C16: the sender gives out the ids 0, 1, 2, ... without gap or reuse, writes
\* one send record per id, with send timestamps that do not decrease as the
\* ids increase, and never sends id n before the clock reached
\* T0 + n * (1 s / rate).
C16_SenderIdsAndPacing ==
  /\ \A i \in DOMAIN sent_log :
       /\ sent_log[i].id = i - 1
       /\ sent_log[i].ts * packet_rate
            >= start_at * packet_rate + (i - 1) * TicksPerSecond
       /\ i > 1 => sent_log[i - 1].ts <= sent_log[i].ts
  /\ pc_w = "pace" => num_messages_sent = Len(sent_log)
  /\ pc_w = "acquire" => num_messages_sent = Len(sent_log) - 1
  /\ LET records == write_buf_copy \o write_buf
     IN  \A i \in DOMAIN records :
           /\ records[i].id \in 0..(num_messages_sent - 1)
           /\ records[i].ts = Get(sent_log, records[i].id)
           /\ \A j \in DOMAIN records : records[j].id = records[i].id => j = i
C16_Witness ==
  /\ Len(sent_log) = 2 /\ num_messages_sent = 2
  /\ sent_log[1].ts < sent_log[2].ts
  /\ Keys(write_buf_copy \o write_buf) = {0, 1}


\* the number of windows analyze_range has been run for, and the time before
\* which its cleanup has removed the entries of the snapshots
AnalysesDone ==
  analyzed_second + (IF pc_main = "accumulate" \/ raised = "OSError" THEN 1 ELSE 0)
EvictedBefore == start_at + AnalysesDone * TicksPerSecond
\* C17: the copy-and-clear drain loses no record: an entry stored into a live
\* store, however the store interleaves with the drain, is in the cumulative
\* snapshot after the next drain of that store, until analyze_range evicts it;
\* and every store goes into the live map, never into a discarded one.
C17_DrainLosesNoRecord ==
  /\ [](Alive =>
         /\ \A i \in DOMAIN sent_log :
              sent_log[i].id < num_messages_sent =>
                \/ Has(write_buf, sent_log[i].id)
                \/ Has(write_buf_copy, sent_log[i].id)
                \/ sent_log[i].ts < EvictedBefore
         /\ \A i \in DOMAIN first_recv :
              \/ Has(read_buf, first_recv[i].id)
              \/ Has(read_buf_copy, first_recv[i].id)
              \/ first_recv[i].ts < EvictedBefore)
  /\ [][/\ (pc_main = "read_locked" /\ pc_main' = "write_locked") =>
             \A i \in DOMAIN read_buf :
               /\ Has(read_buf_copy', read_buf[i].id)
               /\ Get(read_buf_copy', read_buf[i].id) = read_buf[i].ts
        /\ (pc_main = "write_locked" /\ pc_main' \in {"accumulate", "uncaught"}) =>
             \A i \in DOMAIN write_buf :
               \/ write_buf[i].ts < EvictedBefore'
               \/ /\ Has(write_buf_copy', write_buf[i].id)
                  /\ Get(write_buf_copy', write_buf[i].id) = write_buf[i].ts
        /\ (pc_r = "acquire" /\ pc_r' = "recv") =>
             /\ Has(read_buf', reply.id)
             /\ Get(read_buf', reply.id) = reply_at
        /\ (pc_w = "acquire" /\ pc_w' = "pace") =>
             /\ Has(write_buf', num_messages_sent)
             /\ Get(write_buf', num_messages_sent) = send_time]_vars
\* a reply and a send record stored while a cycle was under way are in the
\* snapshots after the drains of the next cycle
C17_Witness ==
  /\ Alive /\ Len(reports) = 1 /\ pc_main = "write_locked"
  /\ \E i \in DOMAIN read_buf_copy :
       /\ read_buf_copy[i].id \notin seen_log[1]
       /\ Has(first_recv, read_buf_copy[i].id)
  /\ write_buf /= <<>>


\* C18: once window k is finalized the snapshots hold no send or receive entry
\* whose timestamp precedes the end of window k, and no send or receive record
\* of a packet sent in window k.
C18_NoRecordOutlivesItsWindow ==
  \A k \in 0..(Len(reports) - 1) :
    /\ \A i \in DOMAIN write_buf_copy :
         write_buf_copy[i].ts >= start_at + (k + 1) * TicksPerSecond
    /\ \A i \in DOMAIN read_buf_copy :
         read_buf_copy[i].ts >= start_at + (k + 1) * TicksPerSecond
    /\ \A i \in DOMAIN sent_log :
         WindowOf(sent_log[i].ts) = k =>
           /\ ~Has(write_buf_copy, sent_log[i].id)
           /\ ~Has(read_buf_copy, sent_log[i].id)
\* C18, amended: from the return of analyze_range for window k until the next
\* cycle drains the live stores, the snapshots hold no send or receive entry
\* whose own timestamp precedes the end of window k.
C18_SnapshotsCleanUntilNextDrain ==
  pc_main /= "write_locked" =>
    /\ \A i \in DOMAIN write_buf_copy : write_buf_copy[i].ts >= EvictedBefore
    /\ \A i \in DOMAIN read_buf_copy : read_buf_copy[i].ts >= EvictedBefore
\* window k was analysed with a packet in it, and the reply to a packet sent
\* in window k, arrived after the end of window k, stays in the snapshot
C18_Witness ==
  /\ pc_main = "accumulate" /\ result.num_sent > 0
  /\ \E i \in DOMAIN read_buf_copy :
       /\ Has(sent_log, read_buf_copy[i].id)
       /\ WindowOf(Get(sent_log, read_buf_copy[i].id)) = analyzed_second
       /\ read_buf_copy[i].id \in result.ids


\* ids whose valid reply was first stored when their window was already
\* reported
LateReplies ==
  {id \in Keys(first_recv) :
     /\ Has(sent_log, id)
     /\ \E j \in DOMAIN reports :
          /\ reports[j].second = WindowOf(Get(sent_log, id))
          /\ id \notin seen_log[j]
          /\ id \notin reports[j].matched}
\* C19: classification as lost is terminal: a reply that arrives after the
\* window of its packet was finalized changes no window result already
\* reported, and the packet is not counted as sent, matched, lost or reordered
\* in any later window.
C19_LostIsTerminal ==
  /\ [](\A j \in DOMAIN reports :
          /\ reports[j].matched \subseteq reports[j].ids
          /\ \A id \in reports[j].ids :
               /\ Has(sent_log, id)
               /\ WindowOf(Get(sent_log, id)) = reports[j].second)
  /\ [][\A j \in DOMAIN reports :
          /\ j \in DOMAIN reports'
          /\ reports'[j] = reports[j]]_vars
C19_Witness ==
  /\ Len(reports) = 2
  /\ \E id \in LateReplies :
       /\ id \in reports[1].ids /\ id \notin reports[1].matched
       /\ id \notin reports[2].ids


\* with an echo server that answers only the packets it received, a receive
\* record is not removed from the receive snapshot before the window of the
\* send timestamp of its id has been analysed
KeptUntilAnalysed ==
  (NoStray /\ Alive) =>
    \A i \in DOMAIN first_recv :
      /\ Has(sent_log, first_recv[i].id)
      /\ WindowOf(Get(sent_log, first_recv[i].id)) >= AnalysesDone =>
           \/ Has(read_buf, first_recv[i].id)
           \/ Has(read_buf_copy, first_recv[i].id)
\* C20: eviction by receive timestamp causes no false loss: with an echo
\* server that answers only the packets it received, a receive record is not
\* removed from the receive snapshot before the window of the send timestamp
\* of its id has been analysed, so a packet whose reply was stored before
\* that analysis is not counted lost.
C20_StoredBeforeAnalysisIsMatched ==
  /\ []KeptUntilAnalysed
  /\ [][(/\ NoStray
         /\ pc_main = "write_locked" /\ pc_main' = "accumulate") =>
          \A id \in result'.ids : Has(first_recv, id) => id \in result'.matched]_vars
\* C20, amended: ... so a packet whose reply was stored before the analysis
\* cycle of its window drained the receive store is not counted lost.
C20_EvictionCausesNoFalseLoss ==
  /\ KeptUntilAnalysed
  /\ NoStray =>
       \A j \in DOMAIN reports :
         (reports[j].ids \cap seen_log[j]) \subseteq reports[j].matched
\* a reply stored before the first cycle, kept by the cleanup of window 0 and
\* matched in window 1
C20_Witness ==
  /\ NoStray /\ Len(reports) = 2
  /\ \E id \in reports[2].matched : id \in seen_log[1]


\* a lock is held by the main thread only inside the section that took it
\* (lines 168-171, 173-176); the sections of the reader and of the writer
\* are single steps
HeldOnlyInsideSection ==
  /\ read_buf_lock = "main" => pc_main = "read_locked"
  /\ write_buf_lock = "main" => pc_main = "write_locked"
\* a live store changes only in a step of a thread that holds its lock
StoreChangesUnderLock ==
  /\ (read_buf' /= read_buf /\ pc_main' /= "exited") =>
       \/ read_buf_lock = "main" /\ pc_main = "read_locked" /\ pc_main' /= pc_main
       \/ read_buf_lock = "free" /\ pc_r = "acquire" /\ pc_r' = "recv"
  /\ (write_buf' /= write_buf /\ pc_main' /= "exited") =>
       \/ write_buf_lock = "main" /\ pc_main = "write_locked" /\ pc_main' /= pc_main
       \/ write_buf_lock = "free" /\ pc_w = "acquire" /\ pc_w' = "pace"
\* a thread that waits for a lock finds it free or held by a thread that can
\* go on to release it
NoLockDeadlock ==
  Alive =>
    /\ pc_r = "acquire" => (read_buf_lock = "free" \/ ENABLED DrainRead)
    /\ pc_w = "acquire" => (write_buf_lock = "free" \/ ENABLED DrainWriteAnalyze)
    /\ pc_main = "read_locked" => ENABLED DrainRead
\* C21: each live store is read, written or replaced only while its own lock
\* is held, no thread holds read_buf_lock and write_buf_lock at the same
\* time, and every acquired lock is released, so the sender, the receiver
\* and the analyzer never deadlock on the two locks.
C21_LockDiscipline ==
  /\ [](/\ HeldOnlyInsideSection
        /\ ~(read_buf_lock = "main" /\ write_buf_lock = "main")
        /\ NoLockDeadlock)
  /\ [][StoreChangesUnderLock]_vars
\* the same for the runs that are not interrupted
C21_WithoutInterrupt ==
  /\ [](~interrupted =>
          /\ HeldOnlyInsideSection
          /\ ~(read_buf_lock = "main" /\ write_buf_lock = "main")
          /\ NoLockDeadlock)
  /\ [][StoreChangesUnderLock]_vars


\* what an analysis about to run is given: the send timestamp of id in the
\* merged send snapshot, the ids it has to select for the window, and those
\* of them that have an entry in the receive snapshot
SendTsAtDrain(id) ==
  IF Has(write_buf, id) THEN Get(write_buf, id) ELSE Get(write_buf_copy, id)
SelectedAtDrain ==
  {id \in Keys(write_buf) \cup Keys(write_buf_copy) :
     /\ SendTsAtDrain(id) >= start_at + analyzed_second * TicksPerSecond
     /\ SendTsAtDrain(id) < start_at + (analyzed_second + 1) * TicksPerSecond}
MatchedAtDrain == {id \in SelectedAtDrain : Has(read_buf_copy, id)}
\* C22: every emitted window result has num_lost = num_sent - num_matched and
\* 0 <= num_lost <= num_sent, where num_matched is the number of ids selected
\* for the window that have an entry in the receive snapshot, and each
\* selected id contributes at most one latency sample.
C22_LostIsSentMinusMatched ==
  /\ [](\A j \in DOMAIN reports :
          /\ reports[j].num_lost = reports[j].num_sent - Cardinality(reports[j].matched)
          /\ 0 <= reports[j].num_lost /\ reports[j].num_lost <= reports[j].num_sent
          /\ Len(reports[j].durations) = Cardinality(reports[j].matched)
          /\ reports[j].matched \subseteq reports[j].ids)
  /\ [][(pc_main = "write_locked" /\ pc_main' = "accumulate") =>
          /\ reports' = Append(reports, result')
          /\ result'.num_sent = Cardinality(SelectedAtDrain)
          /\ result'.matched = MatchedAtDrain
          /\ result'.num_lost = Cardinality(SelectedAtDrain) - Cardinality(MatchedAtDrain)
          /\ Len(result'.durations) = Cardinality(MatchedAtDrain)]_vars
C22_Witness ==
  \E j \in DOMAIN reports :
    /\ reports[j].num_sent = 2 /\ reports[j].num_lost = 1
    /\ Len(reports[j].durations) = 1


\* the printed value v, in hundredths of a millisecond, is num / den
\* microseconds written with two decimals of a millisecond
PrintedAs(v, num, den) ==
  /\ Len(v) = 1
  /\ 2 * (v[1] * 10 * den - num) <= 10 * den
  /\ 2 * (num - v[1] * 10 * den) <= 10 * den
\* C23: in a window result mean, min and max are "n/a" exactly when the
\* window has no matched sample, and stddev is "n/a" exactly when it has fewer
\* than 2; otherwise min and max are the smallest and the largest latency of
\* the matched samples and mean is their average (for 5, 10 and 15 ms: mean
\* 10, min 5, max 15).
C23_LatencyStatistics ==
  LET d == stats.samples
      n == Len(d)
      smallest == CHOOSE i \in DOMAIN d : \A j \in DOMAIN d : d[i] <= d[j]
      largest == CHOOSE i \in DOMAIN d : \A j \in DOMAIN d : d[j] <= d[i]
  IN  /\ stats.phase \in {"mean", "done"} =>
           /\ stats.mean = <<>> <=> n = 0
           /\ stats.min = <<>> <=> n = 0
           /\ stats.max = <<>> <=> n = 0
           /\ n > 0 =>
                /\ PrintedAs(stats.min, d[smallest], 1)
                /\ PrintedAs(stats.max, d[largest], 1)
                /\ PrintedAs(stats.mean, SeqSum(d), n)
           /\ d = <<5000, 10000, 15000>> =>
                stats.mean = <<1000>> /\ stats.min = <<500>> /\ stats.max = <<1500>>
      /\ stats.phase = "done" => (stats.stddev = <<>> <=> n < 2)
C23_Witness ==
  /\ stats.phase = "done" /\ stats.samples = <<15000, 5000, 10000>>
  /\ stats.mean = <<1000>> /\ stats.min = <<500>> /\ stats.max = <<1500>>
  /\ stats.stddev = <<41>>
\* one sample: mean, min and max are printed, stddev is "n/a"
C23_OneSample ==
  /\ stats.phase = "done" /\ stats.samples = <<15007>>
  /\ stats.mean = <<1501>> /\ stats.min = <<1501>> /\ stats.max = <<1501>>
  /\ stats.stddev = <<>>

====
